---- MODULE Spec2Model ----
(***************************************************************************)
(* TypingWale: the Devanagari keystroke composition engine                 *)
(* (hindiComposition: decomposeTargetText, recomposeDecomposedText) and    *)
(* the typing session of useTypingEngine (handleKeyPress, reset, finish).  *)
(*                                                                         *)
(* A string is a sequence of UTF-16 code units; every character of the     *)
(* Devanagari block is one code unit, so a code unit is a codepoint.       *)
(* NUL stands for the empty string '' that the code gets from              *)
(* text[i] || '' when i is past the end.                                   *)
(***************************************************************************)
EXTENDS Integers, Sequences, FiniteSets, TLC

VARIABLES
    targetText,           \* useTypingEngine option targetText (composed passage)
    normalizedTarget,     \* useMemo: decomposeTargetText(normalizeHindiText(targetText))
    currentIndex,         \* useState(0)
    typedText,            \* useState('')
    errors,               \* useState<number[]>([])
    isActive,             \* useState(false)
    needsDummyBackspace,  \* useState(false)
    timerRunning,         \* useTimer: isRunning
    timerInterval,        \* useTimer: intervalRef.current !== null
    pendingFinish,        \* the setTimeout(finish, 50) callbacks not yet run, oldest first
    resets,               \* number of reset() calls so far (bounded by MaxResets)
    lastEvent,            \* observer: which branch the last delivered event took
    stage,                \* composition pipeline: "composed", "decomposed", "recomposed"
    keystrokes,           \* composition pipeline: decomposeTargetText(targetText)
    displayText,          \* composition pipeline: recomposeDecomposedText(keystrokes)
    closure,              \* the render values the registered handleKeyPress has captured
    delivered,            \* key events delivered while events outrun React (SpecStale)
    composedText,         \* composeHindiInput caller: text composed so far
    pendingPreBaseVowel,  \* composeHindiInput caller: pending pre-base vowel, <<>> for null
    typedClusters,        \* observer: the key clusters given to composeHindiInput, in order
    pressedKeys,          \* useKeyPress: pressedRef.current / pressedKeys
    modifierState,        \* useKeyPress: useState<ModifierState>('normal')
    now,                  \* useTimer: Date.now(), in milliseconds
    duration,             \* useTimer option duration in seconds, 0 for undefined
    elapsed,              \* useTimer: useState(0)
    startTimeRef,         \* useTimer: startTimeRef.current, 0 for null
    pausedTimeRef,        \* useTimer: pausedTimeRef.current
    completedRef,         \* useTimer: completedRef.current
    electronAPI,          \* UpdateNotification: window.electronAPI is defined
    updateStatus,         \* UpdateNotification: useState<UpdateStatus>('checking')
    updateInfo,           \* UpdateNotification: updateInfo.version, "" for undefined
    downloadProgress,     \* UpdateNotification: useState(0)
    dismissed,            \* UpdateNotification: useState(false)
    startupTimeout,       \* UpdateNotification: the setTimeout(..., 3000) has not fired
    updateEvents          \* number of updater events received (bounded by MaxUpdateEvents)

vars == << targetText, normalizedTarget, currentIndex, typedText, errors, isActive,
           needsDummyBackspace, timerRunning, timerInterval, pendingFinish, resets,
           lastEvent, stage, keystrokes, displayText, closure, delivered,
           composedText, pendingPreBaseVowel, typedClusters, pressedKeys, modifierState,
           now, duration, elapsed, startTimeRef, pausedTimeRef, completedRef,
           electronAPI, updateStatus, updateInfo, downloadProgress, dismissed,
           startupTimeout, updateEvents >>

sessionVars == << currentIndex, typedText, errors, isActive, needsDummyBackspace,
                  timerRunning, timerInterval, pendingFinish, resets, lastEvent,
                  closure, delivered >>

pipelineVars == << stage, keystrokes, displayText >>

composeVars == << composedText, pendingPreBaseVowel, typedClusters >>

keyVars == << pressedKeys, modifierState >>

timerVars == << now, duration, elapsed, startTimeRef, pausedTimeRef, completedRef >>

updateVars == << electronAPI, updateStatus, updateInfo, downloadProgress, dismissed,
                 startupTimeout, updateEvents >>

hookVars == << timerVars, updateVars >>

inputVars == << composeVars, keyVars, hookVars >>

(***************************************************************************)
(* Bounds of the model.                                                    *)
(***************************************************************************)
\* longest composed passage a session is created for
MaxTargetLen == 3
\* longest composed text given to the composition pipeline
MaxTextLen == 3
\* reset() calls in one run
MaxResets == 1
\* longest string of independent vowels given to the composition pipeline
MaxVowelLen == 2
\* key clusters given to composeHindiInput in one run
MaxClusters == 3
\* longest composed passage of the sessions driven through useKeyPress
MaxKeysTargetLen == 1
\* steps of the clock in a run of useTimer
MaxClockSteps == 4
\* updater events received by UpdateNotification in one run
MaxUpdateEvents == 3
\* longest string of matras after the consonant of a reph cluster
MaxRephMatras == 2
\* longest composed passage of the sessions checked for liveness
MaxLiveTargetLen == 2
\* longest composed passage of the sessions checked for the next-key hint
MaxHintTargetLen == 3
\* longest composed passage of the sessions typed by following the hint
MaxFollowTargetLen == 4
\* key events delivered in a run where events outrun React
MaxStaleEvents == 3

(***************************************************************************)
(* Codepoints.                                                             *)
(***************************************************************************)
NUL == 0
HALANT == \H094D
CHOTI_I_MATRA == \H093F
AA_MATRA == \H093E
E_MATRA == \H0947
O_MATRA == \H094B
RA == \H0930
AI_MATRA == \H0948
CANDRA_E == \H0945
ANUSVARA == \H0902
CHANDRABINDU == \H0901
NUKTA == \H093C
U_MATRA == \H0941
UU_MATRA == \H0942
II_MATRA == \H0940
VOCALIC_R_MATRA == \H0943
AU_MATRA == \H094C
A_VOWEL == \H0905
AA_VOWEL == \H0906
I_VOWEL == \H0907
II_VOWEL == \H0908
U_VOWEL == \H0909
UU_VOWEL == \H090A
VOCALIC_R_VOWEL == \H090B
E_VOWEL == \H090F
AI_VOWEL == \H0910
O_VOWEL == \H0913
AU_VOWEL == \H0914
KA == \H0915
KHA == \H0916
GHA == \H0918
JA == \H091C
NYA == \H091E
NNA == \H0923
TA == \H0924
THA == \H0925
DA == \H0926
DHA == \H0927
BHA == \H092D
MA == \H092E
YA == \H092F
SHA == \H0936
SSA == \H0937

At(s, i) == IF i \in 1..Len(s) THEN s[i] ELSE NUL

isVowel(char) ==
    char # NUL /\ char >= \H0905 /\ char <= \H0914

isConsonant(char) ==
    /\ char # NUL
    /\ \/ (char >= \H0915 /\ char <= \H0939)
       \/ (char >= \H0958 /\ char <= \H095F)
       \/ char \in {\H0933, \H0934, \H0931}

isMatra(char) ==
    /\ char # NUL
    /\ \/ (char >= \H093E /\ char <= \H094C)
       \/ char \in {\H093C, \H0901, \H0902, \H0903, \H0943, \H0944}

(***************************************************************************)
(* decomposeTargetText: composed text -> keystroke-aligned text.           *)
(***************************************************************************)
\* mutant: only the conjuncts that end in RA are in the table
directKeyConjunctsRakarOnly == { <<TA, HALANT, RA>>, <<SHA, HALANT, RA>> }

directKeyConjuncts ==
    { <<TA, HALANT, RA>>, <<DA, HALANT, DHA>>, <<DA, HALANT, YA>>,
      <<SHA, HALANT, RA>>, <<JA, HALANT, NYA>> }

conjunctToHalfPlusAa ==
    [ p \in { <<KA, HALANT, SSA>> } |-> <<KA, HALANT, SSA, HALANT, AA_MATRA>> ]

halfPlusAaConsonants ==
    [ c \in {BHA, DHA, GHA, THA, SHA, SSA, KHA, NNA} |-> <<c, HALANT, AA_MATRA>> ]

\* mutant: UU is typed with the short U matra
decompositionsShortU ==
    (AA_VOWEL :> <<A_VOWEL, AA_MATRA>>) @@
    (II_VOWEL :> <<I_VOWEL, RA, HALANT>>) @@
    (UU_VOWEL :> <<A_VOWEL, U_MATRA>>) @@
    (AI_VOWEL :> <<E_VOWEL, E_MATRA>>) @@
    (AU_VOWEL :> <<A_VOWEL, AA_MATRA, AI_MATRA>>)

decompositions ==
    (AA_VOWEL :> <<A_VOWEL, AA_MATRA>>) @@
    (II_VOWEL :> <<I_VOWEL, RA, HALANT>>) @@
    (UU_VOWEL :> <<A_VOWEL, UU_MATRA>>) @@
    (AI_VOWEL :> <<E_VOWEL, E_MATRA>>) @@
    (AU_VOWEL :> <<A_VOWEL, AA_MATRA, AI_MATRA>>)

\* mutant: the loop collects no matras
matraEndAtOnce(text, j) == j

\* the while loop of the reph branches: first index >= j that holds no matra
RECURSIVE matraEnd(_, _)
matraEnd(text, j) ==
    IF j <= Len(text) /\ isMatra(text[j]) THEN matraEnd(text, j + 1) ELSE j

RECURSIVE decomposeFrom(_, _, _)
decomposeFrom(text, i, result) ==
    IF i > Len(text) THEN result
    ELSE
    LET char == text[i]
        nextChar == At(text, i + 1)
        charAfterNext == At(text, i + 2)
        threeCharPattern == <<char, nextChar, charAfterNext>>
        isThree == isConsonant(char) /\ nextChar = HALANT /\ isConsonant(charAfterNext)
    IN
    IF char = RA /\ nextChar = HALANT /\ isConsonant(charAfterNext)
    THEN LET j == matraEnd(text, i + 3)
         IN decomposeFrom(text, j,
                result \o <<charAfterNext>> \o SubSeq(text, i + 3, j - 1) \o <<RA, HALANT>>)
    ELSE IF isThree /\ threeCharPattern \in directKeyConjuncts
    THEN decomposeFrom(text, i + 3, result \o threeCharPattern)
    ELSE IF isThree /\ threeCharPattern \in DOMAIN conjunctToHalfPlusAa
    THEN decomposeFrom(text, i + 3, result \o conjunctToHalfPlusAa[threeCharPattern])
    ELSE IF isThree /\ charAfterNext = RA
    THEN decomposeFrom(text, i + 3, result \o <<char, HALANT, RA>>)
    ELSE IF isConsonant(char) /\ nextChar = HALANT
    THEN decomposeFrom(text, i + 2, result \o <<char, HALANT>>)
    ELSE IF char \in DOMAIN halfPlusAaConsonants
    THEN decomposeFrom(text, i + 1, result \o halfPlusAaConsonants[char])
    ELSE IF char >= \H0906 /\ char <= \H0914 /\ char = O_VOWEL
    THEN decomposeFrom(text, i + 1, result \o <<A_VOWEL, AA_MATRA, E_MATRA>>)
    ELSE IF char >= \H0906 /\ char <= \H0914 /\ char \in DOMAIN decompositions
    THEN decomposeFrom(text, i + 1, result \o decompositions[char])
    ELSE IF i + 1 <= Len(text) /\ isConsonant(char) /\ text[i + 1] = CHOTI_I_MATRA
    THEN decomposeFrom(text, i + 2, result \o <<CHOTI_I_MATRA, char>>)
    ELSE IF i + 1 <= Len(text) /\ isConsonant(char) /\ text[i + 1] = O_MATRA
    THEN decomposeFrom(text, i + 2, result \o <<char, AA_MATRA, E_MATRA>>)
    ELSE IF char = CHANDRABINDU
    THEN decomposeFrom(text, i + 1, result \o <<CANDRA_E, ANUSVARA>>)
    ELSE decomposeFrom(text, i + 1, result \o <<char>>)

decomposeTargetText(text) == decomposeFrom(text, 1, <<>>)

(***************************************************************************)
(* recomposeDecomposedText: keystroke-aligned text -> display text.        *)
(***************************************************************************)
vowelMap ==
    (AA_MATRA :> AA_VOWEL) @@ (CHOTI_I_MATRA :> I_VOWEL) @@ (II_MATRA :> II_VOWEL) @@
    (U_MATRA :> U_VOWEL) @@ (UU_MATRA :> UU_VOWEL) @@
    (VOCALIC_R_MATRA :> VOCALIC_R_VOWEL) @@ (E_MATRA :> E_VOWEL) @@
    (AI_MATRA :> AI_VOWEL) @@ (O_MATRA :> O_VOWEL) @@ (AU_MATRA :> AU_VOWEL)

\* matras.slice(1)
sliceFrom1(s) == IF Len(s) <= 1 THEN <<>> ELSE SubSeq(s, 2, Len(s))

RECURSIVE recomposeFrom(_, _, _)
recomposeFrom(decomposedText, i, result) ==
    IF i > Len(decomposedText) THEN result
    ELSE
    LET char == decomposedText[i]
        nextChar == At(decomposedText, i + 1)
        charAfterNext == At(decomposedText, i + 2)
        \* consonant + matra(s) + reph
        la1 == matraEnd(decomposedText, i + 1)
        matras1 == SubSeq(decomposedText, i + 1, la1 - 1)
        reph1 == At(decomposedText, la1) = RA /\ At(decomposedText, la1 + 1) = HALANT
        \* consonant + matra(s) + halant + matra(s) + reph
        la2 == matraEnd(decomposedText, la1 + 1)
        matras2 == matras1 \o SubSeq(decomposedText, la1 + 1, la2 - 1)
        reph2 == /\ At(decomposedText, la1) = HALANT
                 /\ At(decomposedText, la2) = RA
                 /\ At(decomposedText, la2 + 1) = HALANT
        prevChar == At(result, Len(result))
    IN
    IF char = CHOTI_I_MATRA /\ isConsonant(nextChar)
    THEN recomposeFrom(decomposedText, i + 2, result \o <<nextChar, char>>)
    ELSE IF isConsonant(char) /\ nextChar = RA /\ charAfterNext = HALANT
    THEN recomposeFrom(decomposedText, i + 3, result \o <<RA, HALANT, char>>)
    ELSE IF isConsonant(char) /\ reph1
    THEN recomposeFrom(decomposedText, la1 + 2, result \o <<RA, HALANT, char>> \o matras1)
    ELSE IF isConsonant(char) /\ reph2
    THEN recomposeFrom(decomposedText, la2 + 2,
                       result \o <<RA, HALANT, char>> \o sliceFrom1(matras2))
    ELSE IF char = RA /\ nextChar = HALANT /\ isConsonant(charAfterNext)
    THEN recomposeFrom(decomposedText, i + 3, result \o <<char, nextChar, charAfterNext>>)
    ELSE IF char = A_VOWEL /\ isMatra(nextChar) /\ nextChar = AA_MATRA
            /\ charAfterNext = E_MATRA
    THEN recomposeFrom(decomposedText, i + 3, result \o <<O_VOWEL>>)
    ELSE IF char = A_VOWEL /\ isMatra(nextChar) /\ nextChar = AA_MATRA
            /\ charAfterNext = AI_MATRA
    THEN recomposeFrom(decomposedText, i + 3, result \o <<AU_VOWEL>>)
    ELSE IF char = A_VOWEL /\ isMatra(nextChar) /\ nextChar \in DOMAIN vowelMap
    THEN recomposeFrom(decomposedText, i + 2, result \o <<vowelMap[nextChar]>>)
    ELSE IF isConsonant(char) /\ nextChar = AA_MATRA /\ charAfterNext = E_MATRA
    THEN recomposeFrom(decomposedText, i + 3, result \o <<char, O_MATRA>>)
    ELSE IF char = HALANT /\ isMatra(nextChar) /\ prevChar # NUL /\ isConsonant(prevChar)
    THEN recomposeFrom(decomposedText, i + 2, result)
    ELSE IF char = I_VOWEL /\ nextChar = RA /\ charAfterNext = HALANT
    THEN recomposeFrom(decomposedText, i + 3, result \o <<II_VOWEL>>)
    ELSE IF char = E_VOWEL /\ nextChar = E_MATRA
    THEN recomposeFrom(decomposedText, i + 2, result \o <<AI_VOWEL>>)
    ELSE IF char = CANDRA_E /\ nextChar = ANUSVARA
    THEN recomposeFrom(decomposedText, i + 2, result \o <<CHANDRABINDU>>)
    ELSE recomposeFrom(decomposedText, i + 1, result \o <<char>>)

recomposeDecomposedText(decomposedText) == recomposeFrom(decomposedText, 1, <<>>)

(***************************************************************************)
(* normalizeHindiText: text.normalize('NFC'), for the Devanagari block:    *)
(* canonical decomposition, canonical reordering of combining marks        *)
(* (nukta has class 7, halant class 9), canonical composition (the nukta   *)
(* letters U+0958..U+095F are composition exclusions).                     *)
(***************************************************************************)
canonicalDecomposition(c) ==
    CASE c = \H0929 -> <<\H0928, NUKTA>>
      [] c = \H0931 -> <<\H0930, NUKTA>>
      [] c = \H0934 -> <<\H0933, NUKTA>>
      [] c = \H0958 -> <<\H0915, NUKTA>>
      [] c = \H0959 -> <<\H0916, NUKTA>>
      [] c = \H095A -> <<\H0917, NUKTA>>
      [] c = \H095B -> <<\H091C, NUKTA>>
      [] c = \H095C -> <<\H0921, NUKTA>>
      [] c = \H095D -> <<\H0922, NUKTA>>
      [] c = \H095E -> <<\H092B, NUKTA>>
      [] c = \H095F -> <<\H092F, NUKTA>>
      [] OTHER -> <<c>>

combiningClass(c) ==
    CASE c = NUKTA -> 7
      [] c = HALANT -> 9
      [] c \in {\H0951, \H0953, \H0954} -> 230
      [] c = \H0952 -> 220
      [] OTHER -> 0

RECURSIVE decomposeCanonical(_)
decomposeCanonical(s) ==
    IF s = <<>> THEN <<>>
    ELSE canonicalDecomposition(Head(s)) \o decomposeCanonical(Tail(s))

RECURSIVE reorderMarks(_)
reorderMarks(s) ==
    LET bad == { k \in 1..(Len(s) - 1) :
                   /\ combiningClass(s[k + 1]) > 0
                   /\ combiningClass(s[k]) > combiningClass(s[k + 1]) }
    IN IF bad = {} THEN s
       ELSE LET k == CHOOSE x \in bad : \A y \in bad : x <= y
            IN reorderMarks([ n \in 1..Len(s) |->
                                IF n = k THEN s[k + 1] ELSE IF n = k + 1 THEN s[k] ELSE s[n] ])

RECURSIVE composeCanonical(_)
composeCanonical(s) ==
    IF Len(s) < 2 THEN s
    ELSE IF s[2] = NUKTA /\ s[1] \in {\H0928, \H0930, \H0933}
    THEN <<s[1] + 1>> \o composeCanonical(SubSeq(s, 3, Len(s)))
    ELSE <<s[1]>> \o composeCanonical(Tail(s))

normalizeHindiText(text) == composeCanonical(reorderMarks(decomposeCanonical(text)))

compareHindiChars(char1, char2) == normalizeHindiText(char1) = normalizeHindiText(char2)

(***************************************************************************)
(* Composed passages: the texts a lesson can hold.  A vowel sign follows   *)
(* a consonant, a halant follows a consonant, a nasal sign follows a       *)
(* consonant, a vowel sign or an independent vowel; the text is NFC.       *)
(***************************************************************************)
isVowelSign(c) == c >= \H093E /\ c <= \H094C

isNasalSign(c) == c \in {CHANDRABINDU, ANUSVARA, \H0903}

RECURSIVE SeqsUpTo(_, _)
SeqsUpTo(S, n) ==
    IF n = 0 THEN { <<>> }
    ELSE LET shorter == SeqsUpTo(S, n - 1)
         IN shorter \cup { Append(t, c) : t \in { u \in shorter : Len(u) = n - 1 }, c \in S }

WellFormed(t) ==
    /\ \A k \in 1..Len(t) :
         /\ isVowelSign(t[k]) => isConsonant(At(t, k - 1))
         /\ t[k] = HALANT => isConsonant(At(t, k - 1))
         /\ isNasalSign(t[k]) =>
               \/ isConsonant(At(t, k - 1))
               \/ isVowelSign(At(t, k - 1))
               \/ isVowel(At(t, k - 1))
    /\ normalizeHindiText(t) = t

\* alphabet of the composition pipeline
ComposeAlphabet ==
    { KA, MA, RA, TA, SHA, HALANT, CHOTI_I_MATRA, AA_MATRA, O_MATRA,
      CHANDRABINDU, A_VOWEL, II_VOWEL, O_VOWEL }

ComposedTexts == { t \in SeqsUpTo(ComposeAlphabet, MaxTextLen) : WellFormed(t) }

(***************************************************************************)
(* The composition pipeline: a passage is decomposed into the keystroke    *)
(* plan, and the plan, typed exactly, is recomposed for display.           *)
(***************************************************************************)
\* what a handleKeyPress created by a render reads from that render
rendered(index, dummy, active, running) ==
    [ currentIndex |-> index, needsDummyBackspace |-> dummy, isActive |-> active,
      isRunning |-> running ]

(***************************************************************************)
(* composeHindiInput: one key cluster folded into the text typed so far.   *)
(* A cluster is the output of one key; the predicates look at its first    *)
(* code unit (charCodeAt(0)), the table lookups at the whole cluster.      *)
(***************************************************************************)
VOWEL_MATRA_MAP ==
    [ v \in {A_VOWEL} |->
        (<<AA_MATRA>> :> AA_VOWEL) @@ (<<CHOTI_I_MATRA>> :> I_VOWEL) @@
        (<<II_MATRA>> :> II_VOWEL) @@ (<<U_MATRA>> :> U_VOWEL) @@
        (<<UU_MATRA>> :> UU_VOWEL) @@ (<<E_MATRA>> :> E_VOWEL) @@
        (<<AI_MATRA>> :> AI_VOWEL) @@ (<<O_MATRA>> :> O_VOWEL) @@
        (<<AU_MATRA>> :> AU_VOWEL) ]

endsWithHalfConsonant(text) ==
    /\ Len(text) >= 2
    /\ text[Len(text)] = HALANT
    /\ isConsonant(text[Len(text) - 1])

isChotiIMatra(char) == char = <<CHOTI_I_MATRA>>

composeHindiInput(currentText, newChar, pending) ==
    LET lastChar == At(currentText, Len(currentText))
    IN IF isChotiIMatra(newChar)
       THEN [text |-> currentText, pendingPreBaseVowel |-> newChar]
       ELSE IF pending # <<>> /\ isConsonant(At(newChar, 1))
       THEN [text |-> currentText \o newChar \o pending, pendingPreBaseVowel |-> <<>>]
       ELSE IF pending # <<>>
       THEN [text |-> currentText \o pending \o newChar, pendingPreBaseVowel |-> <<>>]
       ELSE IF /\ isVowel(lastChar)
               /\ isMatra(At(newChar, 1))
               /\ lastChar \in DOMAIN VOWEL_MATRA_MAP
               /\ newChar \in DOMAIN VOWEL_MATRA_MAP[lastChar]
       THEN [text |-> SubSeq(currentText, 1, Len(currentText) - 1)
                        \o <<VOWEL_MATRA_MAP[lastChar][newChar]>>,
             pendingPreBaseVowel |-> <<>>]
       ELSE IF endsWithHalfConsonant(currentText) /\ isMatra(At(newChar, 1))
       THEN [text |-> SubSeq(currentText, 1, Len(currentText) - 1) \o newChar,
             pendingPreBaseVowel |-> <<>>]
       ELSE [text |-> currentText \o newChar, pendingPreBaseVowel |-> <<>>]

\* useTimer after construction
InitTimer ==
    /\ now = 1
    /\ elapsed = 0
    /\ startTimeRef = 0
    /\ pausedTimeRef = 0
    /\ completedRef = FALSE

\* UpdateNotification after its mount effect
InitUpdate ==
    /\ updateStatus = IF electronAPI THEN "checking" ELSE "not-available"
    /\ updateInfo = ""
    /\ downloadProgress = 0
    /\ dismissed = FALSE
    /\ startupTimeout = electronAPI
    /\ updateEvents = 0

\* the composeHindiInput caller and the hooks after construction
InitInput ==
    /\ composedText = <<>>
    /\ pendingPreBaseVowel = <<>>
    /\ typedClusters = <<>>
    /\ pressedKeys = {}
    /\ modifierState = "normal"
    /\ InitTimer
    /\ duration = 0
    /\ electronAPI = TRUE
    /\ InitUpdate

InitCompose ==
    /\ targetText \in ComposedTexts
    /\ normalizedTarget = <<>>
    /\ currentIndex = 0
    /\ typedText = <<>>
    /\ errors = <<>>
    /\ isActive = FALSE
    /\ needsDummyBackspace = FALSE
    /\ timerRunning = FALSE
    /\ timerInterval = FALSE
    /\ pendingFinish = <<>>
    /\ resets = 0
    /\ lastEvent = [kind |-> "none", key |-> "", modifiers |-> ""]
    /\ stage = "composed"
    /\ keystrokes = <<>>
    /\ displayText = <<>>
    /\ closure = rendered(0, FALSE, FALSE, FALSE)
    /\ delivered = 0
    /\ InitInput

Decompose ==
    /\ stage = "composed"
    /\ keystrokes' = decomposeTargetText(targetText)
    /\ stage' = "decomposed"
    /\ UNCHANGED << targetText, normalizedTarget, sessionVars, displayText, inputVars >>

Recompose ==
    /\ stage = "decomposed"
    /\ displayText' = recomposeDecomposedText(keystrokes)
    /\ stage' = "recomposed"
    /\ UNCHANGED << targetText, normalizedTarget, sessionVars, keystrokes, inputVars >>

NextCompose == Decompose \/ Recompose

SpecCompose == InitCompose /\ [][NextCompose]_vars

\* C1: round trip -- for every passage T of the supported character set,
\* recomposeDecomposedText(decomposeTargetText(T)) = T: the keystroke plan of a
\* passage, typed exactly, displays as the passage.
RoundTrip == stage = "recomposed" => displayText = targetText

(***************************************************************************)
(* Keyboard mapping layer (keyboardMapper, keyboardMappings).  The slots   *)
(* listed are the ones the repository documents; a key or slot that is not *)
(* in the layout gives the empty string.                                   *)
(***************************************************************************)
KeyMapping(key, normal, shift) ==
    [ key |-> key, normal |-> normal, shift |-> shift, altgr |-> <<>>, altgrShift |-> <<>> ]

\* REMINGTON_GAIL_LAYOUT.rows.flat(): the keys in (row, column) order
REMINGTON_GAIL_LAYOUT ==
    << KeyMapping("Digit0", <<>>, <<TA, HALANT, RA>>),
       KeyMapping("KeyE", <<>>, <<MA, HALANT>>),
       KeyMapping("KeyD", <<KA>>, <<>>),
       KeyMapping("KeyF", <<CHOTI_I_MATRA>>, <<>>),
       KeyMapping("KeyK", <<>>, <<JA, HALANT, NYA>>),
       KeyMapping("KeyZ", <<HALANT, RA>>, <<>>),
       KeyMapping("KeyX", <<>>, <<RA, HALANT>>) >>

ModifierStates == { "normal", "shift", "altgr", "altgr-shift" }

\* the output of a key mapping in a modifier state
outputOf(mapping, modifiers) ==
    CASE modifiers = "normal" -> mapping.normal
      [] modifiers = "shift" -> mapping.shift
      [] modifiers = "altgr" -> mapping.altgr
      [] modifiers = "altgr-shift" -> mapping.altgrShift

\* KEY_MAP: a map filled from the layout's keys in order, a later key of the
\* same key code replacing an earlier one
KEY_MAP ==
    [ key \in { REMINGTON_GAIL_LAYOUT[i].key : i \in DOMAIN REMINGTON_GAIL_LAYOUT } |->
        LET last == CHOOSE i \in DOMAIN REMINGTON_GAIL_LAYOUT :
                      /\ REMINGTON_GAIL_LAYOUT[i].key = key
                      /\ \A j \in DOMAIN REMINGTON_GAIL_LAYOUT :
                            REMINGTON_GAIL_LAYOUT[j].key = key => j <= i
        IN REMINGTON_GAIL_LAYOUT[last] ]

\* the slots of the layout that hold an output
KeySlots ==
    [ slot \in { sl \in (DOMAIN KEY_MAP) \X ModifierStates :
                   outputOf(KEY_MAP[sl[1]], sl[2]) # <<>> } |->
        outputOf(KEY_MAP[slot[1]], slot[2]) ]

getCharacterForKey(key, modifiers) ==
    IF <<key, modifiers>> \in DOMAIN KeySlots THEN KeySlots[<<key, modifiers>>] ELSE <<>>

\* mutant: only the left shift key counts as shift
getModifierStateLeftShift(pressed) ==
    LET shift == "ShiftLeft" \in pressed
        altgr == "AltRight" \in pressed
    IN IF shift /\ altgr THEN "altgr-shift"
       ELSE IF altgr THEN "altgr"
       ELSE IF shift THEN "shift"
       ELSE "normal"

getModifierState(pressed) ==
    LET shift == "ShiftLeft" \in pressed \/ "ShiftRight" \in pressed
        altgr == "AltRight" \in pressed
    IN IF shift /\ altgr THEN "altgr-shift"
       ELSE IF altgr THEN "altgr"
       ELSE IF shift THEN "shift"
       ELSE "normal"

MODIFIER_KEYS == { "ShiftLeft", "ShiftRight", "AltLeft", "AltRight" }

CONTROL_KEYS == { "Backspace", "Enter", "Tab", "Escape" }

isModifierKey(key) == key \in MODIFIER_KEYS

isTypeableKey(key) == ~isModifierKey(key) /\ key \notin CONTROL_KEYS

\* the key events useKeyPress delivers to the session: the documented slots,
\* a key the layout does not hold, a control key and Backspace
KeyEvents ==
    { <<"KeyD", "normal">>, <<"KeyE", "shift">>, <<"KeyK", "shift">>,
      <<"KeyF", "normal">>, <<"Numpad5", "normal">>, <<"Enter", "normal">>,
      <<"Backspace", "normal">> }

\* mutant: the reverse lookup scans the normal outputs only
findKeysForCharacterNormalOnly(char) ==
    { k \in DOMAIN KeySlots : KeySlots[k] = char /\ k[2] = "normal" }

\* findKeysForCharacter: the slots whose output is the character
findKeysForCharacter(char) == { k \in DOMAIN KeySlots : KeySlots[k] = char }

(***************************************************************************)
(* The typing session (useTypingEngine).  React commits the state updates  *)
(* of one event and re-registers the handler before the next event is      *)
(* delivered, so a handler reads the state its predecessor left.  The      *)
(* session has no duration limit: the timer never expires by itself.       *)
(***************************************************************************)
SessionAlphabet == { KA, MA, HALANT, CHOTI_I_MATRA }

SessionTargets ==
    { t \in SeqsUpTo(SessionAlphabet, MaxTargetLen) : t # <<>> /\ WellFormed(t) }

Init ==
    /\ targetText \in SessionTargets
    /\ normalizedTarget = decomposeTargetText(normalizeHindiText(targetText))
    /\ currentIndex = 0
    /\ typedText = <<>>
    /\ errors = <<>>
    /\ isActive = FALSE
    /\ needsDummyBackspace = FALSE
    /\ timerRunning = FALSE
    /\ timerInterval = FALSE
    /\ pendingFinish = <<>>
    /\ resets = 0
    /\ lastEvent = [kind |-> "none", key |-> "", modifiers |-> ""]
    /\ stage = "session"
    /\ keystrokes = <<>>
    /\ displayText = <<>>
    /\ closure = rendered(0, FALSE, FALSE, FALSE)
    /\ delivered = 0
    /\ InitInput

(***************************************************************************)
(* Passages built around one unit of the rule table -- a reph cluster      *)
(* (RA + HALANT + consonant + matras) or a single-key conjunct -- with     *)
(* text before and after it.                                               *)
(***************************************************************************)
RephMatras == { CHOTI_I_MATRA, AA_MATRA, O_MATRA, ANUSVARA, CHANDRABINDU }

RephClusters ==
    { <<RA, HALANT, c>> \o m : c \in { KA, MA, SHA, TA },
                               m \in SeqsUpTo(RephMatras, MaxRephMatras) }

\* the conjuncts the layout has on one key
singleKeyConjuncts ==
    { <<TA, HALANT, RA>>, <<DA, HALANT, DHA>>, <<DA, HALANT, YA>>,
      <<SHA, HALANT, RA>>, <<JA, HALANT, NYA>> }

RulePrefixes == { <<>>, <<KA>>, <<MA, HALANT>>, <<SHA, CHOTI_I_MATRA>>, <<A_VOWEL>> }

RuleSuffixes == { <<>>, <<KA>>, <<CHOTI_I_MATRA>>, <<HALANT, YA>>, <<RA, HALANT, KA>> }

RuleTexts ==
    { u \o c \o v : u \in RulePrefixes, c \in RephClusters \cup singleKeyConjuncts,
                    v \in RuleSuffixes }

InitRules ==
    /\ targetText \in RuleTexts
    /\ normalizedTarget = <<>>
    /\ currentIndex = 0
    /\ typedText = <<>>
    /\ errors = <<>>
    /\ isActive = FALSE
    /\ needsDummyBackspace = FALSE
    /\ timerRunning = FALSE
    /\ timerInterval = FALSE
    /\ pendingFinish = <<>>
    /\ resets = 0
    /\ lastEvent = [kind |-> "none", key |-> "", modifiers |-> ""]
    /\ stage = "composed"
    /\ keystrokes = <<>>
    /\ displayText = <<>>
    /\ closure = rendered(0, FALSE, FALSE, FALSE)
    /\ delivered = 0
    /\ InitInput

SpecRules == InitRules /\ [][NextCompose]_vars

(***************************************************************************)
(* Strings of independent vowels.                                          *)
(***************************************************************************)
IndependentVowels == A_VOWEL..AU_VOWEL

VowelTexts == SeqsUpTo(IndependentVowels, MaxVowelLen)

InitVowels ==
    /\ targetText \in VowelTexts
    /\ normalizedTarget = <<>>
    /\ currentIndex = 0
    /\ typedText = <<>>
    /\ errors = <<>>
    /\ isActive = FALSE
    /\ needsDummyBackspace = FALSE
    /\ timerRunning = FALSE
    /\ timerInterval = FALSE
    /\ pendingFinish = <<>>
    /\ resets = 0
    /\ lastEvent = [kind |-> "none", key |-> "", modifiers |-> ""]
    /\ stage = "composed"
    /\ keystrokes = <<>>
    /\ displayText = <<>>
    /\ closure = rendered(0, FALSE, FALSE, FALSE)
    /\ delivered = 0
    /\ InitInput

SpecVowels == InitVowels /\ [][NextCompose]_vars

(***************************************************************************)
(* Incremental composition: a caller folds composeHindiInput over the key  *)
(* clusters as they are typed, starting from the empty text.               *)
(***************************************************************************)
InputClusters ==
    { <<A_VOWEL>>, <<KA>>, <<MA, HALANT>>,
      <<AA_MATRA>>, <<CHOTI_I_MATRA>>, <<II_MATRA>>, <<U_MATRA>>, <<UU_MATRA>>,
      <<E_MATRA>>, <<AI_MATRA>>, <<O_MATRA>>, <<AU_MATRA>> }

InitIncremental ==
    /\ targetText = <<>>
    /\ normalizedTarget = <<>>
    /\ currentIndex = 0
    /\ typedText = <<>>
    /\ errors = <<>>
    /\ isActive = FALSE
    /\ needsDummyBackspace = FALSE
    /\ timerRunning = FALSE
    /\ timerInterval = FALSE
    /\ pendingFinish = <<>>
    /\ resets = 0
    /\ lastEvent = [kind |-> "none", key |-> "", modifiers |-> ""]
    /\ stage = "composed"
    /\ keystrokes = <<>>
    /\ displayText = <<>>
    /\ closure = rendered(0, FALSE, FALSE, FALSE)
    /\ delivered = 0
    /\ InitInput

TypeCluster ==
    /\ Len(typedClusters) < MaxClusters
    /\ \E newChar \in InputClusters :
          LET result == composeHindiInput(composedText, newChar, pendingPreBaseVowel)
          IN /\ composedText' = result.text
             /\ pendingPreBaseVowel' = result.pendingPreBaseVowel
             /\ typedClusters' = Append(typedClusters, newChar)
    /\ UNCHANGED << targetText, normalizedTarget, sessionVars, pipelineVars, keyVars,
                    hookVars >>

SpecIncremental == InitIncremental /\ [][TypeCluster]_vars

\* mutant: the terminal test as an equality
isCompletedExact == currentIndex = Len(normalizedTarget)

isCompleted == currentIndex >= Len(normalizedTarget)

\* mutant: the expected slice is one codepoint, whatever the cluster's length
expectedSequenceOne(char) ==
    SubSeq(normalizedTarget, currentIndex + 1,
           IF currentIndex + 1 <= Len(normalizedTarget)
           THEN currentIndex + 1 ELSE Len(normalizedTarget))

\* normalizedTarget.slice(currentIndex, currentIndex + charLength)
expectedSequence(char) ==
    SubSeq(normalizedTarget, currentIndex + 1,
           IF currentIndex + Len(char) <= Len(normalizedTarget)
           THEN currentIndex + Len(char) ELSE Len(normalizedTarget))

\* mutant: the halant test left out
isHalfFormAnyCluster(char) == Len(char) >= 2

isHalfForm(char) == Len(char) >= 2 /\ char[Len(char)] = HALANT

\* mutant: the cursor advances by one per keystroke
nextIndexByOne(char) == currentIndex + 1

\* const next = currentIndex + charLength
nextIndex(char) == currentIndex + Len(char)

\* mutant: only the first position of a wrong cluster is marked
markErrorsFirstOnly(e, char) == Append(e, currentIndex)

\* the setErrors calls of the loop over the cluster's positions
markErrors(e, char) == e \o [ i \in 1..Len(char) |-> currentIndex + (i - 1) ]

\* mutant: the error at the removed position is kept
dropErrorKeepAll(e, prevIndex) == e

\* setErrors((e) => e.filter((idx) => idx !== prevIndex))
dropError(e, prevIndex) == SelectSeq(e, LAMBDA idx : idx # prevIndex)

\* mutant: t.slice(1), the first codepoint is removed
dropFirst(t) == IF t = <<>> THEN <<>> ELSE Tail(t)

\* setTypedText((t) => t.slice(0, -1))
dropLast(t) == IF t = <<>> THEN <<>> ELSE SubSeq(t, 1, Len(t) - 1)

\* mutant: completion only when the cursor lands exactly on the end
completesExact(next) == next = Len(normalizedTarget)

\* if (next >= normalizedTarget.length) { ...; setTimeout(finish, 50); }
completes(next) == next >= Len(normalizedTarget)

Event(kind, key, modifiers) == [kind |-> kind, key |-> key, modifiers |-> modifiers]

\* handleKeyPress, second half: a typeable key
TypeKey(key, modifiers) ==
    LET char == getCharacterForKey(key, modifiers)
        correct == compareHindiChars(char, expectedSequence(char))
        next == nextIndex(char)
    IN
    \* if (!isActive) { setIsActive(true); timer.start(); }
    /\ isActive' = TRUE
    /\ IF ~isActive /\ ~timerRunning
       THEN timerRunning' = TRUE /\ timerInterval' = TRUE
       ELSE UNCHANGED << timerRunning, timerInterval >>
    /\ IF char = <<>>
       THEN /\ lastEvent' = Event("emptyOutput", key, modifiers)
            /\ UNCHANGED << currentIndex, typedText, errors, needsDummyBackspace,
                            pendingFinish >>
       ELSE /\ needsDummyBackspace' = isHalfForm(char)
            /\ typedText' = typedText \o char
            /\ currentIndex' = next
            /\ errors' = IF correct THEN errors ELSE markErrors(errors, char)
            \* setTimeout(finish, 50): finish is the callback of this render and
            \* holds this render's timer.pause, which reads this render's isRunning
            /\ pendingFinish' = IF completes(next)
                                THEN Append(pendingFinish, timerRunning)
                                ELSE pendingFinish
            /\ lastEvent' = Event("forward", key, modifiers)

\* mutant: every backspace deletes, the free backspace is gone
handleBackspaceNoFree ==
    /\ currentIndex' = currentIndex - 1
    /\ typedText' = dropLast(typedText)
    /\ errors' = dropError(errors, currentIndex - 1)
    /\ needsDummyBackspace' = FALSE
    /\ lastEvent' = Event("backspace", "", "")
    /\ UNCHANGED << isActive, timerRunning, timerInterval, pendingFinish >>

\* mutant: a backspace removes two codepoints when it can
handleBackspaceByTwo ==
    /\ UNCHANGED << isActive, timerRunning, timerInterval, pendingFinish >>
    /\ IF needsDummyBackspace
       THEN /\ needsDummyBackspace' = FALSE
            /\ lastEvent' = Event("dummyBackspace", "", "")
            /\ UNCHANGED << currentIndex, typedText, errors >>
       ELSE LET prevIndex == IF currentIndex >= 2 THEN currentIndex - 2 ELSE 0 IN
            /\ currentIndex' = prevIndex
            /\ typedText' = SubSeq(typedText, 1, prevIndex)
            /\ errors' = SelectSeq(errors, LAMBDA idx : idx < prevIndex)
            /\ lastEvent' = Event("backspace", "", "")
            /\ UNCHANGED needsDummyBackspace

\* handleKeyPress, the branch key === 'Backspace' && currentIndex > 0
handleBackspace ==
    /\ UNCHANGED << isActive, timerRunning, timerInterval, pendingFinish >>
    /\ IF needsDummyBackspace
       THEN /\ needsDummyBackspace' = FALSE
            /\ lastEvent' = Event("dummyBackspace", "", "")
            /\ UNCHANGED << currentIndex, typedText, errors >>
       ELSE /\ currentIndex' = currentIndex - 1
            /\ typedText' = dropLast(typedText)
            /\ errors' = dropError(errors, currentIndex - 1)
            /\ lastEvent' = Event("backspace", "", "")
            /\ UNCHANGED needsDummyBackspace

\* handleKeyPress as the callback useKeyPress holds in onKeyPressRef
onKeyPress(key, modifiers) ==
    /\ stage = "session"
    /\ UNCHANGED << targetText, normalizedTarget, resets, pipelineVars, delivered,
                    composeVars, hookVars >>
    /\ IF isCompleted
       THEN /\ lastEvent' = Event("completed", "", "")
            /\ UNCHANGED << currentIndex, typedText, errors, isActive,
                            needsDummyBackspace, timerRunning, timerInterval,
                            pendingFinish >>
       ELSE IF key = "Backspace" /\ currentIndex > 0
       THEN handleBackspace
       ELSE IF ~isTypeableKey(key)
       THEN /\ lastEvent' = Event("notTypeable", "", "")
            /\ UNCHANGED << currentIndex, typedText, errors, isActive,
                            needsDummyBackspace, timerRunning, timerInterval,
                            pendingFinish >>
       ELSE TypeKey(key, modifiers)
    \* the render after the event and its effect setOnKeyPress(handleKeyPress)
    /\ closure' = rendered(currentIndex', needsDummyBackspace', isActive', timerRunning')

HandleKeyPress(key, modifiers) ==
    /\ onKeyPress(key, modifiers)
    /\ UNCHANGED keyVars

KeyPress == \E ev \in KeyEvents : HandleKeyPress(ev[1], ev[2])

\* reset(): the four setters, then timer.reset()
Reset ==
    /\ stage = "session"
    /\ resets < MaxResets
    /\ resets' = resets + 1
    /\ currentIndex' = 0
    /\ typedText' = <<>>
    /\ errors' = <<>>
    /\ isActive' = FALSE
    /\ timerInterval' = FALSE
    /\ lastEvent' = Event("reset", "", "")
    /\ UNCHANGED << targetText, normalizedTarget, needsDummyBackspace, timerRunning,
                    pendingFinish, pipelineVars, delivered, inputVars >>
    /\ closure' = rendered(currentIndex', needsDummyBackspace', isActive', timerRunning')

\* the setTimeout(finish, 50) callback: setIsActive(false); timer.pause(); onComplete
Finish ==
    /\ stage = "session"
    /\ pendingFinish # <<>>
    /\ pendingFinish' = Tail(pendingFinish)
    /\ isActive' = FALSE
    /\ IF Head(pendingFinish)
       THEN timerRunning' = FALSE /\ timerInterval' = FALSE
       ELSE UNCHANGED << timerRunning, timerInterval >>
    /\ lastEvent' = Event("finish", "", "")
    /\ UNCHANGED << targetText, normalizedTarget, currentIndex, typedText, errors,
                    needsDummyBackspace, resets, pipelineVars, delivered, inputVars >>
    /\ closure' = rendered(currentIndex', needsDummyBackspace', isActive', timerRunning')

Next == KeyPress \/ Reset \/ Finish

Spec == Init /\ [][Next]_vars

InitLive == Init /\ Len(targetText) <= MaxLiveTargetLen

\* the event loop runs every timeout callback that was scheduled
SpecLive == InitLive /\ [][Next]_vars /\ WF_vars(Finish)

(***************************************************************************)
(* useTimer on its own: the caller calls start, pause, reset and stop of   *)
(* the current render, the interval runs updateTime, the clock advances.   *)
(***************************************************************************)
\* milliseconds between two moments of the clock
ClockStep == 500

\* the duration option of a countdown, in seconds
TimerDuration == 1

\* no typing session, composition pipeline or key is involved
InitIdle ==
    /\ targetText = <<>>
    /\ normalizedTarget = <<>>
    /\ currentIndex = 0
    /\ typedText = <<>>
    /\ errors = <<>>
    /\ isActive = FALSE
    /\ needsDummyBackspace = FALSE
    /\ timerRunning = FALSE
    /\ timerInterval = FALSE
    /\ pendingFinish = <<>>
    /\ resets = 0
    /\ lastEvent = [kind |-> "none", key |-> "", modifiers |-> ""]
    /\ stage = "idle"
    /\ keystrokes = <<>>
    /\ displayText = <<>>
    /\ closure = rendered(0, FALSE, FALSE, FALSE)
    /\ delivered = 0
    /\ composedText = <<>>
    /\ pendingPreBaseVowel = <<>>
    /\ typedClusters = <<>>
    /\ pressedKeys = {}
    /\ modifierState = "normal"

InitTimerRun ==
    /\ InitIdle
    /\ InitTimer
    /\ duration \in {0, TimerDuration}
    /\ electronAPI = TRUE
    /\ InitUpdate

timerRest ==
    << targetText, normalizedTarget, currentIndex, typedText, errors, isActive,
       needsDummyBackspace, pendingFinish, resets, closure, delivered, pipelineVars,
       composeVars, keyVars, updateVars, duration >>

\* time passes
Clock ==
    /\ now < 1 + MaxClockSteps * ClockStep
    /\ now' = now + ClockStep
    /\ lastEvent' = Event("clock", "", "")
    /\ UNCHANGED << timerRest, timerRunning, timerInterval, elapsed, startTimeRef,
                    pausedTimeRef, completedRef >>

\* updateTime, run by the interval
updateTime ==
    /\ timerInterval
    /\ lastEvent' = Event("updateTime", "", "")
    /\ IF startTimeRef = 0
       THEN UNCHANGED << elapsed, completedRef, timerRunning, timerInterval >>
       ELSE LET newElapsed == now - startTimeRef + pausedTimeRef IN
            /\ elapsed' = newElapsed
            /\ IF duration # 0 /\ newElapsed >= duration * 1000 /\ ~completedRef
               THEN /\ completedRef' = TRUE
                    /\ timerRunning' = FALSE
                    /\ timerInterval' = FALSE
               ELSE UNCHANGED << completedRef, timerRunning, timerInterval >>
    /\ UNCHANGED << timerRest, now, startTimeRef, pausedTimeRef >>

\* start()
timerStart ==
    /\ lastEvent' = Event("start", "", "")
    /\ IF timerRunning
       THEN UNCHANGED << completedRef, startTimeRef, timerRunning, timerInterval >>
       ELSE /\ completedRef' = FALSE
            /\ startTimeRef' = now
            /\ timerRunning' = TRUE
            /\ timerInterval' = TRUE
    /\ UNCHANGED << timerRest, now, elapsed, pausedTimeRef >>

\* pause()
timerPause ==
    /\ lastEvent' = Event("pause", "", "")
    /\ IF ~timerRunning
       THEN UNCHANGED << timerRunning, timerInterval, pausedTimeRef, startTimeRef >>
       ELSE /\ timerRunning' = FALSE
            /\ timerInterval' = FALSE
            /\ IF startTimeRef # 0
               THEN /\ pausedTimeRef' = pausedTimeRef + (now - startTimeRef)
                    /\ startTimeRef' = 0
               ELSE UNCHANGED << pausedTimeRef, startTimeRef >>
    /\ UNCHANGED << timerRest, now, elapsed, completedRef >>

\* reset()
timerReset ==
    /\ lastEvent' = Event("reset", "", "")
    /\ elapsed' = 0
    /\ startTimeRef' = 0
    /\ pausedTimeRef' = 0
    /\ completedRef' = FALSE
    /\ timerInterval' = FALSE
    /\ UNCHANGED << timerRest, now, timerRunning >>

\* stop(): setIsRunning(false); reset()
timerStop ==
    /\ lastEvent' = Event("stop", "", "")
    /\ timerRunning' = FALSE
    /\ elapsed' = 0
    /\ startTimeRef' = 0
    /\ pausedTimeRef' = 0
    /\ completedRef' = FALSE
    /\ timerInterval' = FALSE
    /\ UNCHANGED << timerRest, now >>

NextTimer == Clock \/ updateTime \/ timerStart \/ timerPause \/ timerReset \/ timerStop

SpecTimer == InitTimerRun /\ [][NextTimer]_vars

(***************************************************************************)
(* UpdateNotification: the listeners registered by the mount effect, the   *)
(* startup timeout and the banner's buttons.                               *)
(***************************************************************************)
InitUpdateRun ==
    /\ InitIdle
    /\ InitTimer
    /\ duration = 0
    /\ electronAPI \in BOOLEAN
    /\ InitUpdate

updateRest ==
    << targetText, normalizedTarget, sessionVars, pipelineVars, composeVars, keyVars,
       timerVars, electronAPI >>

\* the versions the updater announces
Versions == { "1.0.1", "1.0.2" }

\* the status and progress fields of an update-status message
StatusMessages == { "checking-for-update", "downloading", "ready-to-install", "error" }

ProgressValues == { 0, 50 }

\* the banner is rendered with these states unless it was dismissed
shown == ~dismissed /\ updateStatus \notin { "not-available", "checking" }

\* the listener given to onUpdateAvailable
onUpdateAvailable ==
    /\ electronAPI
    /\ updateEvents < MaxUpdateEvents
    /\ updateEvents' = updateEvents + 1
    /\ \E version \in Versions : updateInfo' = version
    /\ updateStatus' = "available"
    /\ UNCHANGED << updateRest, downloadProgress, dismissed, startupTimeout >>

\* the listener given to onUpdateStatus
onUpdateStatus ==
    /\ electronAPI
    /\ updateEvents < MaxUpdateEvents
    /\ updateEvents' = updateEvents + 1
    /\ \E status \in StatusMessages, progress \in ProgressValues :
          IF status = "downloading"
          THEN updateStatus' = "downloading" /\ downloadProgress' = progress
          ELSE IF status = "ready-to-install"
          THEN updateStatus' = "downloaded" /\ UNCHANGED downloadProgress
          ELSE IF status = "error"
          THEN updateStatus' = "error" /\ UNCHANGED downloadProgress
          ELSE UNCHANGED << updateStatus, downloadProgress >>
    /\ UNCHANGED << updateRest, updateInfo, dismissed, startupTimeout >>

\* the listener given to onUpdateDownloaded
onUpdateDownloaded ==
    /\ electronAPI
    /\ updateEvents < MaxUpdateEvents
    /\ updateEvents' = updateEvents + 1
    /\ updateStatus' = "downloaded"
    /\ UNCHANGED << updateRest, updateInfo, downloadProgress, dismissed, startupTimeout >>

\* setTimeout(() => setStatus('not-available'), 3000)
startupTimeoutFires ==
    /\ startupTimeout
    /\ startupTimeout' = FALSE
    /\ updateStatus' = "not-available"
    /\ UNCHANGED << updateRest, updateInfo, downloadProgress, dismissed, updateEvents >>

\* the Download button of the banner in the state available
handleDownload ==
    /\ shown
    /\ updateStatus = "available"
    /\ electronAPI
    /\ updateStatus' = "downloading"
    /\ UNCHANGED << updateRest, updateInfo, downloadProgress, dismissed, startupTimeout,
                    updateEvents >>

\* the dismiss button of the banner
handleDismiss ==
    /\ shown
    /\ updateStatus \in { "error", "available", "downloaded" }
    /\ dismissed' = TRUE
    /\ UNCHANGED << updateRest, updateStatus, updateInfo, downloadProgress,
                    startupTimeout, updateEvents >>

NextUpdate ==
    \/ onUpdateAvailable
    \/ onUpdateDownloaded
    \/ onUpdateStatus
    \/ startupTimeoutFires
    \/ handleDownload
    \/ handleDismiss

SpecUpdate == InitUpdateRun /\ [][NextUpdate]_vars

(***************************************************************************)
(* useKeyPress: the held keys, the modifier state derived from them, and   *)
(* the delivery of non-modifier key presses to the session.                *)
(***************************************************************************)
PhysicalKeys ==
    { "ShiftLeft", "ShiftRight", "AltLeft", "AltRight", "KeyD", "KeyE", "Backspace" }

InitKeys == Init /\ Len(targetText) <= MaxKeysTargetLen

\* mutant: the test pressedRef.current.has(code) left out
handleDownRepeat(code) ==
    /\ pressedKeys' = pressedKeys \cup {code}
    /\ modifierState' = getModifierState(pressedKeys')
    /\ IF isModifierKey(code)
       THEN UNCHANGED << targetText, normalizedTarget, sessionVars, pipelineVars,
                         composeVars, hookVars >>
       ELSE onKeyPress(code, modifierState')

handleDown(code) ==
    /\ code \notin pressedKeys
    /\ pressedKeys' = pressedKeys \cup {code}
    /\ modifierState' = getModifierState(pressedKeys')
    /\ IF isModifierKey(code)
       THEN UNCHANGED << targetText, normalizedTarget, sessionVars, pipelineVars,
                         composeVars, hookVars >>
       ELSE onKeyPress(code, modifierState')

handleUp(code) ==
    /\ pressedKeys' = pressedKeys \ {code}
    /\ modifierState' = getModifierState(pressedKeys')
    /\ UNCHANGED << targetText, normalizedTarget, sessionVars, pipelineVars, composeVars,
                    hookVars >>

KeyDown == \E code \in PhysicalKeys : handleDown(code)

KeyUp == \E code \in PhysicalKeys : handleUp(code)

NextKeys == KeyDown \/ KeyUp \/ Finish

SpecKeys == InitKeys /\ [][NextKeys]_vars

(***************************************************************************)
(* The typing session when key events outrun React: handleKeyPress is a    *)
(* closure over the values of the render that created it, and the effect   *)
(* setOnKeyPress(handleKeyPress) registers the next one only after the     *)
(* next render is committed.  An event delivered before that runs the old  *)
(* closure: it reads that render's currentIndex, needsDummyBackspace,      *)
(* isActive and timer, while the functional updates of typedText and       *)
(* errors apply to the live state.                                         *)
(***************************************************************************)
StaleHandleKeyPress(key, modifiers) ==
    LET index == closure.currentIndex
        char == getCharacterForKey(key, modifiers)
        charLength == Len(char)
        last == IF index + charLength <= Len(normalizedTarget)
                THEN index + charLength ELSE Len(normalizedTarget)
        correct == compareHindiChars(char, SubSeq(normalizedTarget, index + 1, last))
        next == index + charLength
    IN
    /\ stage = "session"
    /\ delivered < MaxStaleEvents
    /\ delivered' = delivered + 1
    /\ UNCHANGED << targetText, normalizedTarget, resets, pipelineVars, closure, inputVars >>
    /\ IF index >= Len(normalizedTarget)
       THEN /\ lastEvent' = Event("completed", "", "")
            /\ UNCHANGED << currentIndex, typedText, errors, isActive,
                            needsDummyBackspace, timerRunning, timerInterval,
                            pendingFinish >>
       ELSE IF key = "Backspace" /\ index > 0
       THEN /\ UNCHANGED << isActive, timerRunning, timerInterval, pendingFinish >>
            /\ IF closure.needsDummyBackspace
               THEN /\ needsDummyBackspace' = FALSE
                    /\ lastEvent' = Event("dummyBackspace", "", "")
                    /\ UNCHANGED << currentIndex, typedText, errors >>
               ELSE /\ currentIndex' = index - 1
                    /\ typedText' = dropLast(typedText)
                    /\ errors' = dropError(errors, index - 1)
                    /\ lastEvent' = Event("backspace", "", "")
                    /\ UNCHANGED needsDummyBackspace
       ELSE IF ~isTypeableKey(key)
       THEN /\ lastEvent' = Event("notTypeable", "", "")
            /\ UNCHANGED << currentIndex, typedText, errors, isActive,
                            needsDummyBackspace, timerRunning, timerInterval,
                            pendingFinish >>
       ELSE /\ isActive' = IF closure.isActive THEN isActive ELSE TRUE
            /\ IF ~closure.isActive /\ ~closure.isRunning
               THEN timerRunning' = TRUE /\ timerInterval' = TRUE
               ELSE UNCHANGED << timerRunning, timerInterval >>
            /\ IF char = <<>>
               THEN /\ lastEvent' = Event("emptyOutput", key, modifiers)
                    /\ UNCHANGED << currentIndex, typedText, errors,
                                    needsDummyBackspace, pendingFinish >>
               ELSE /\ needsDummyBackspace' = isHalfForm(char)
                    /\ typedText' = typedText \o char
                    /\ currentIndex' = next
                    /\ errors' = IF correct THEN errors
                                 ELSE errors \o [ i \in 1..charLength |-> index + (i - 1) ]
                    /\ pendingFinish' = IF completes(next)
                                        THEN Append(pendingFinish, closure.isRunning)
                                        ELSE pendingFinish
                    /\ lastEvent' = Event("forward", key, modifiers)

StaleKeyPress == \E ev \in KeyEvents : StaleHandleKeyPress(ev[1], ev[2])

\* React commits the render of the pending updates and runs the effect that
\* registers the handleKeyPress of that render
Register ==
    /\ stage = "session"
    /\ closure # rendered(currentIndex, needsDummyBackspace, isActive, timerRunning)
    /\ closure' = rendered(currentIndex, needsDummyBackspace, isActive, timerRunning)
    /\ UNCHANGED << targetText, normalizedTarget, currentIndex, typedText, errors,
                    isActive, needsDummyBackspace, timerRunning, timerInterval,
                    pendingFinish, resets, lastEvent, pipelineVars, delivered, inputVars >>

NextStale == StaleKeyPress \/ Register

SpecStale == Init /\ [][NextStale]_vars

(***************************************************************************)
(* nextExpectedChar: the next keyable unit at the cursor.                  *)
(***************************************************************************)
knownSequences ==
    << <<KA, HALANT, SSA, HALANT>>, <<TA, HALANT, RA>>, <<DA, HALANT, DHA>>,
       <<DA, HALANT, YA>>, <<SHA, HALANT, RA>>, <<JA, HALANT, NYA>>,
       <<RA, UU_MATRA>>, <<RA, HALANT>>, <<HALANT, RA>> >>

\* target.slice(index, index + n)
targetSlice(target, index, n) ==
    SubSeq(target, index + 1, IF index + n <= Len(target) THEN index + n ELSE Len(target))

\* mutant: a known sequence or half form is returned without asking for a key
hintAtNoKeyCheck(target, index) ==
    IF index >= Len(target) THEN <<>>
    ELSE
    LET currentChar == target[index + 1]
        nextChar == At(target, index + 2)
        charAfterNext == At(target, index + 3)
        found == { k \in 1..Len(knownSequences) :
                     targetSlice(target, index, Len(knownSequences[k])) = knownSequences[k] }
    IN
    IF found # {}
    THEN knownSequences[CHOOSE k \in found : \A j \in found : k <= j]
    ELSE IF nextChar = HALANT /\ charAfterNext # RA
    THEN <<currentChar, HALANT>>
    ELSE <<currentChar>>

\* the body of the useMemo of nextExpectedChar, for a target and a cursor
hintAt(target, index) ==
    IF index >= Len(target) THEN <<>>
    ELSE
    LET currentChar == target[index + 1]
        nextChar == At(target, index + 2)
        charAfterNext == At(target, index + 3)
        found == { k \in 1..Len(knownSequences) :
                     /\ targetSlice(target, index, Len(knownSequences[k])) = knownSequences[k]
                     /\ findKeysForCharacter(knownSequences[k]) # {} }
    IN
    IF found # {}
    THEN knownSequences[CHOOSE k \in found : \A j \in found : k <= j]
    ELSE IF /\ nextChar = HALANT
            /\ charAfterNext # RA
            /\ findKeysForCharacter(<<currentChar, HALANT>>) # {}
    THEN <<currentChar, HALANT>>
    ELSE <<currentChar>>

nextExpectedChar == hintAt(normalizedTarget, currentIndex)

(***************************************************************************)
(* Sessions for the hint: passages with conjuncts, reph and rakar.  In     *)
(* SpecHint right keys, wrong keys and Backspace bring the cursor to every *)
(* position; in SpecFollowHint the user presses a key that produces the    *)
(* hint, and nothing else.                                                 *)
(***************************************************************************)
HintAlphabet == { KA, MA, JA, NYA, TA, RA, HALANT, CHOTI_I_MATRA }

HintTargets ==
    { t \in SeqsUpTo(HintAlphabet, MaxHintTargetLen) : t # <<>> /\ WellFormed(t) }

InitHint ==
    /\ targetText \in HintTargets
    /\ normalizedTarget = decomposeTargetText(normalizeHindiText(targetText))
    /\ currentIndex = 0
    /\ typedText = <<>>
    /\ errors = <<>>
    /\ isActive = FALSE
    /\ needsDummyBackspace = FALSE
    /\ timerRunning = FALSE
    /\ timerInterval = FALSE
    /\ pendingFinish = <<>>
    /\ resets = 0
    /\ lastEvent = [kind |-> "none", key |-> "", modifiers |-> ""]
    /\ stage = "session"
    /\ keystrokes = <<>>
    /\ displayText = <<>>
    /\ closure = rendered(0, FALSE, FALSE, FALSE)
    /\ delivered = 0
    /\ InitInput

HintKeyEvents ==
    { <<"KeyD", "normal">>, <<"KeyK", "shift">>, <<"Backspace", "normal">> }

HintKeyPress == \E ev \in HintKeyEvents : HandleKeyPress(ev[1], ev[2])

SpecHint == InitHint /\ [][HintKeyPress]_vars

\* a keystroke that produces exactly the hint
TypeHint ==
    /\ nextExpectedChar # <<>>
    /\ \E k \in findKeysForCharacter(nextExpectedChar) : HandleKeyPress(k[1], k[2])

\* can the passage be typed by following the hint: a key produces every hint
RECURSIVE hintTypeable(_, _)
hintTypeable(target, index) ==
    IF index >= Len(target) THEN TRUE
    ELSE /\ findKeysForCharacter(hintAt(target, index)) # {}
         /\ hintTypeable(target, index + Len(hintAt(target, index)))

FollowTargets ==
    { t \in SeqsUpTo(HintAlphabet, MaxFollowTargetLen) :
        /\ t # <<>>
        /\ WellFormed(t)
        /\ hintTypeable(decomposeTargetText(normalizeHindiText(t)), 0) }

InitFollowHint ==
    /\ targetText \in FollowTargets
    /\ normalizedTarget = decomposeTargetText(normalizeHindiText(targetText))
    /\ currentIndex = 0
    /\ typedText = <<>>
    /\ errors = <<>>
    /\ isActive = FALSE
    /\ needsDummyBackspace = FALSE
    /\ timerRunning = FALSE
    /\ timerInterval = FALSE
    /\ pendingFinish = <<>>
    /\ resets = 0
    /\ lastEvent = [kind |-> "none", key |-> "", modifiers |-> ""]
    /\ stage = "session"
    /\ keystrokes = <<>>
    /\ displayText = <<>>
    /\ closure = rendered(0, FALSE, FALSE, FALSE)
    /\ delivered = 0
    /\ InitInput

\* the user goes on typing until the passage is complete
SpecFollowHint == InitFollowHint /\ [][TypeHint]_vars /\ WF_vars(TypeHint)

(***************************************************************************)
(* Properties of the typing session.                                       *)
(***************************************************************************)
BackspaceKey == HandleKeyPress("Backspace", "normal")

\* the cluster of the keystroke lastEvent records
clusterOf(ev) == getCharacterForKey(ev.key, ev.modifiers)

\* cluster = target[cursor .. cursor + n), codepoint by codepoint
matchesTarget(char) ==
    /\ currentIndex + Len(char) <= Len(normalizedTarget)
    /\ \A i \in 1..Len(char) : normalizedTarget[currentIndex + i] = char[i]

\* the positions [cursor, cursor + n), in order
positionsOf(char) == [ i \in 1..Len(char) |-> currentIndex + i - 1 ]

maxClusterLen ==
    CHOOSE n \in { Len(KeySlots[k]) : k \in DOMAIN KeySlots } :
        \A k \in DOMAIN KeySlots : Len(KeySlots[k]) <= n

\* C2: in every reachable state of the session, after any keystrokes, backspaces
\* and resets, the cursor equals the length of the typed buffer.
CursorIsBufferLength == currentIndex = Len(typedText)

\* C2 witness: after a reset, keys were typed and a backspace removed a codepoint
CursorIsBufferLengthWitness ==
    /\ resets = 1
    /\ lastEvent.kind = "backspace"
    /\ Len(typedText) >= 1

\* C3: every recorded error position p satisfies 0 <= p < cursor; a backspace
\* never leaves an error index >= the new cursor.
ErrorSetBound ==
    \A k \in 1..Len(errors) : 0 <= errors[k] /\ errors[k] < currentIndex

\* C3 witness: a backspace has just removed a codepoint and errors remain
ErrorSetBoundWitness ==
    /\ lastEvent.kind = "backspace"
    /\ errors # <<>>
    /\ currentIndex >= 1

ForwardKeystroke ==
    [][ \A ev \in KeyEvents :
          LET char == getCharacterForKey(ev[1], ev[2]) IN
          ( /\ HandleKeyPress(ev[1], ev[2])
            /\ currentIndex < Len(normalizedTarget)
            /\ ev[1] \notin (MODIFIER_KEYS \cup CONTROL_KEYS)
            /\ Len(char) >= 1 )
          => /\ typedText' = typedText \o char
             /\ currentIndex' = currentIndex + Len(char)
             /\ errors' = IF matchesTarget(char) THEN errors
                          ELSE errors \o positionsOf(char) ]_vars

\* C5 witness: a wrong cluster of three codepoints has been recorded, not rejected
ForwardKeystrokeWitness ==
    /\ lastEvent.kind = "forward"
    /\ Len(clusterOf(lastEvent)) = 3
    /\ Len(errors) >= 3
    /\ Len(typedText) > 3

\* C6 as stated: Backspace in any state with cursor > 0 and no pending half form
\* moves the cursor back by exactly 1, drops the last codepoint of the buffer and
\* removes the new cursor value from the errors.
BackspaceAnyState ==
    [][ ( BackspaceKey /\ currentIndex > 0 /\ ~needsDummyBackspace )
        => /\ currentIndex' = currentIndex - 1
           /\ typedText' = SubSeq(typedText, 1, Len(typedText) - 1)
           /\ \A k \in 1..Len(errors') : errors'[k] # currentIndex' ]_vars

\* C6 amended: the same, in any non-terminal state (cursor < len(decomposedTarget));
\* the other error positions are kept.
BackspaceNonTerminal ==
    [][ ( /\ BackspaceKey
          /\ currentIndex > 0
          /\ currentIndex < Len(normalizedTarget)
          /\ ~needsDummyBackspace )
        => /\ currentIndex' = currentIndex - 1
           /\ typedText' = SubSeq(typedText, 1, Len(typedText) - 1)
           /\ \A k \in 1..Len(errors') : errors'[k] # currentIndex'
           /\ \A k \in 1..Len(errors) :
                 errors[k] # currentIndex' => \E j \in 1..Len(errors') : errors'[j] = errors[k]
         ]_vars

\* C6 witness: a backspace has removed the second codepoint of a wrong cluster
\* and its error position, and kept the first
BackspaceWitness ==
    /\ lastEvent.kind = "backspace"
    /\ currentIndex = 1
    /\ errors = <<0>>

\* C7 as stated: after any forward keystroke that sets the half-form flag, the
\* next Backspace leaves cursor and buffer unchanged and clears the flag.
FreeBackspaceAnyState ==
    [][ ( BackspaceKey /\ lastEvent.kind = "forward" /\ needsDummyBackspace )
        => /\ currentIndex' = currentIndex
           /\ typedText' = typedText
           /\ needsDummyBackspace' = FALSE ]_vars

\* C7 amended: when the half-form keystroke leaves the session non-terminal, the
\* next Backspace leaves cursor and buffer unchanged and clears the flag, and
\* the Backspace after that moves the cursor back by exactly 1.
TwoStageBackspace ==
    [][ /\ ( /\ BackspaceKey
             /\ lastEvent.kind = "forward"
             /\ needsDummyBackspace
             /\ currentIndex < Len(normalizedTarget) )
           => /\ currentIndex' = currentIndex
              /\ typedText' = typedText
              /\ errors' = errors
              /\ needsDummyBackspace' = FALSE
        /\ ( BackspaceKey /\ lastEvent.kind = "dummyBackspace" )
           => /\ currentIndex' = currentIndex - 1
              /\ Len(typedText') = Len(typedText) - 1 ]_vars

\* C7 witness: the second backspace after a half-form cluster has acted -- the
\* buffer holds the cluster's consonant without its halant
TwoStageBackspaceWitness ==
    /\ lastEvent.kind = "backspace"
    /\ typedText = <<MA>>
    /\ currentIndex = 1

\* C8: after every forward keystroke with a non-empty cluster, the half-form flag
\* is set iff the cluster has >= 2 codepoints and ends in the halant; any other
\* cluster clears a flag set before.
HalfFormFlag ==
    lastEvent.kind = "forward" =>
        LET char == clusterOf(lastEvent) IN
        needsDummyBackspace = (Len(char) >= 2 /\ char[Len(char)] = HALANT)

\* C8 witness: a cluster that is no half form was typed right after a half form
HalfFormFlagWitness ==
    /\ lastEvent.kind = "forward"
    /\ typedText = <<MA, HALANT, JA, HALANT, NYA>>
    /\ ~needsDummyBackspace

\* C9: reset() returns the session to its initial state from any reachable
\* state: cursor 0, buffer empty, no errors, no pending half form.
ResetRestoresInitial ==
    lastEvent.kind = "reset" =>
        /\ currentIndex = 0
        /\ typedText = <<>>
        /\ errors = <<>>
        /\ needsDummyBackspace = FALSE

\* C10: a typeable keystroke whose key and modifier state map to an empty output
\* is fully ignored: cursor, buffer, errors and half-form flag are unchanged, the
\* session is not activated and its timer is not started.
EmptyOutputIgnored ==
    [][ \A ev \in KeyEvents :
          ( /\ HandleKeyPress(ev[1], ev[2])
            /\ ev[1] \notin (MODIFIER_KEYS \cup CONTROL_KEYS)
            /\ getCharacterForKey(ev[1], ev[2]) = <<>> )
          => UNCHANGED << currentIndex, typedText, errors, needsDummyBackspace,
                          isActive, timerRunning, timerInterval >> ]_vars

WrongKeyNotTerminal ==
    [][ \A ev \in KeyEvents :
          LET char == getCharacterForKey(ev[1], ev[2]) IN
          ( /\ HandleKeyPress(ev[1], ev[2])
            /\ Len(normalizedTarget) = 1
            /\ currentIndex = 0
            /\ ev[1] \notin (MODIFIER_KEYS \cup CONTROL_KEYS)
            /\ Len(char) >= 1
            /\ char # normalizedTarget )
          => /\ currentIndex' = Len(char)
             /\ errors' = errors \o positionsOf(char)
             /\ currentIndex' < Len(normalizedTarget) ]_vars

\* C12 amended: the wrong key is recorded, not rejected -- the cursor advances
\* by the cluster's length and every advanced position is marked; the cursor
\* is then at or past the end of the one-codepoint target, so the session is
\* terminal (isCompleted true) and its completion is scheduled.
WrongKeyRecorded ==
    [][ \A ev \in KeyEvents :
          LET char == getCharacterForKey(ev[1], ev[2]) IN
          ( /\ HandleKeyPress(ev[1], ev[2])
            /\ Len(normalizedTarget) = 1
            /\ currentIndex = 0
            /\ ev[1] \notin (MODIFIER_KEYS \cup CONTROL_KEYS)
            /\ Len(char) >= 1
            /\ char # normalizedTarget )
          => /\ currentIndex' = Len(char)
             /\ typedText' = typedText \o char
             /\ errors' = errors \o positionsOf(char)
             /\ currentIndex' >= Len(normalizedTarget)
             /\ Len(pendingFinish') = Len(pendingFinish) + 1 ]_vars

\* C12 witness: a wrong one-codepoint cluster was typed at cursor 0 of a
\* one-codepoint target
WrongKeyRecordedWitness ==
    /\ lastEvent.kind = "forward"
    /\ Len(normalizedTarget) = 1
    /\ Len(typedText) = 1
    /\ typedText # normalizedTarget
    /\ errors = <<0>>

\* C13: cursor monotonicity -- a forward keystroke never decreases the cursor,
\* and a Backspace decreases it by at most 1, by 0 for the free backspace after
\* a half-form cluster.
CursorMonotonic ==
    [][ \A ev \in KeyEvents :
          HandleKeyPress(ev[1], ev[2]) =>
             IF ev[1] = "Backspace"
             THEN /\ currentIndex' <= currentIndex
                  /\ currentIndex' >= currentIndex - 1
                  /\ lastEvent'.kind = "dummyBackspace" => currentIndex' = currentIndex
             ELSE currentIndex' >= currentIndex ]_vars

\* C13 witness: a backspace has moved the cursor back from 2 to 1 in a target
\* of three codepoints, after right keystrokes
CursorMonotonicWitness ==
    /\ lastEvent.kind = "backspace"
    /\ currentIndex = 1
    /\ Len(normalizedTarget) = 3
    /\ errors = <<>>
    /\ typedText = SubSeq(normalizedTarget, 1, 1)

\* C14: keystrokes are applied strictly in arrival order -- for two key events
\* delivered back to back, also when the second arrives before the handler has
\* been re-registered after the first one's state update, the second one's
\* expected slice starts at the cursor the first produced (it is judged and
\* its errors are marked from there), and cursor = len(typedBuffer) after both.
ArrivalOrder ==
    [][ \A ev \in KeyEvents :
          LET char == getCharacterForKey(ev[1], ev[2]) IN
          ( /\ StaleHandleKeyPress(ev[1], ev[2])
            /\ lastEvent'.kind = "forward" )
          => /\ errors' = IF matchesTarget(char) THEN errors
                          ELSE errors \o positionsOf(char)
             /\ currentIndex' = currentIndex + Len(char)
             /\ currentIndex' = Len(typedText') ]_vars

\* C15: whenever a forward keystroke brings the cursor to (or past) the end of
\* the decomposed target, the completion callback is scheduled once for that
\* keystroke and for no other event, every scheduled callback eventually runs
\* (onComplete is invoked), and each run signals one completion.
CompletionSignaled ==
    /\ [][ /\ \A ev \in KeyEvents :
                 HandleKeyPress(ev[1], ev[2]) =>
                    IF lastEvent'.kind = "forward" /\ currentIndex' >= Len(normalizedTarget)
                    THEN Len(pendingFinish') = Len(pendingFinish) + 1
                    ELSE pendingFinish' = pendingFinish
            /\ Len(pendingFinish') < Len(pendingFinish)
                  => /\ Finish
                     /\ lastEvent'.kind = "finish"
                     /\ Len(pendingFinish') = Len(pendingFinish) - 1 ]_vars
    /\ \A n \in 1..(MaxResets + 1) :
          (Len(pendingFinish) >= n) ~> (Len(pendingFinish) < n)

\* C15 witness: the completion of a passage typed past its end has been signaled
CompletionSignaledWitness ==
    /\ lastEvent.kind = "finish"
    /\ pendingFinish = <<>>
    /\ currentIndex > Len(normalizedTarget)

\* C16: next-expected-input hint -- in every non-terminal state the hint is
\* non-empty and equals target[cursor .. cursor + len(hint)), a prefix of the
\* untyped remainder; a hint of several codepoints is returned only when some
\* key produces it, otherwise the hint is the single codepoint at the cursor;
\* in the terminal state the hint is empty.
HintIsKeyablePrefix ==
    LET hint == nextExpectedChar IN
    IF currentIndex >= Len(normalizedTarget)
    THEN hint = <<>>
    ELSE /\ hint # <<>>
         /\ currentIndex + Len(hint) <= Len(normalizedTarget)
         /\ \A i \in 1..Len(hint) : hint[i] = normalizedTarget[currentIndex + i]
         /\ Len(hint) >= 2 => \E k \in DOMAIN KeySlots : KeySlots[k] = hint

\* C16 witness: the cursor stands before a half form no key produces, after a
\* conjunct typed with one key; the hint is the single consonant
HintIsKeyablePrefixWitness ==
    /\ currentIndex = 0
    /\ normalizedTarget = <<KA, HALANT, MA>>
    /\ nextExpectedChar = <<KA>>
    /\ lastEvent.kind = "backspace"

\* C17: typing the right keys completes the passage cleanly -- when every
\* keystroke produces exactly the cluster of the current hint, the buffer is
\* always a prefix of the target without errors, the cursor never passes the
\* end, and the session reaches cursor = len(decomposedTarget) exactly.
FollowingHintCompletes ==
    /\ [](/\ errors = <<>>
          /\ currentIndex <= Len(normalizedTarget)
          /\ typedText = SubSeq(normalizedTarget, 1, currentIndex))
    /\ <>[](currentIndex = Len(normalizedTarget) /\ errors = <<>>)

\* C17 witness: a passage with a reph was completed by a consonant key and the
\* reph key
FollowingHintCompletesWitness ==
    /\ targetText = <<RA, HALANT, KA>>
    /\ typedText = <<KA, RA, HALANT>>
    /\ currentIndex = Len(normalizedTarget)
    /\ errors = <<>>

(***************************************************************************)
(* Properties of decomposeTargetText.                                      *)
(***************************************************************************)
\* the text before position i, and the text from position i on
before(text, i) == SubSeq(text, 1, i - 1)

from(text, i) == SubSeq(text, i, Len(text))

\* the run of matras that starts at position j
matrasAt(text, j) ==
    LET ends == { e \in j..(Len(text) + 1) :
                    /\ \A k \in j..(e - 1) : isMatra(text[k])
                    /\ e <= Len(text) => ~isMatra(text[e]) }
    IN SubSeq(text, j, (CHOOSE e \in ends : TRUE) - 1)

\* position i is not the tail of a consonant + halant + consonant unit
startsUnit(text, i) == ~(isConsonant(At(text, i - 2)) /\ At(text, i - 1) = HALANT)

\* C18: pre-base vowel reordering -- for every consonant C, a C immediately
\* followed by the pre-base matra CHOTI_I in the composed text is decomposed to
\* matra-before-consonant order: after the keystrokes of what precedes C comes
\* the matra, then C.
PreBaseReordered ==
    stage = "decomposed" =>
        \A i \in 1..(Len(targetText) - 1) :
            ( isConsonant(targetText[i]) /\ targetText[i + 1] = CHOTI_I_MATRA )
            => LET n == Len(decomposeTargetText(before(targetText, i))) IN
               /\ At(keystrokes, n + 1) = CHOTI_I_MATRA
               /\ At(keystrokes, n + 2) = targetText[i]

\* C19: reph normalization -- for every consonant C and every (possibly empty)
\* string M of matras, RA + HALANT + C + M is rewritten to C + M + RA + HALANT:
\* the reph moves to the end of the cluster, C and M are copied as they are.
RephMovedToEnd ==
    stage = "decomposed" =>
        \A i \in 1..(Len(targetText) - 2) :
            ( /\ targetText[i] = RA
              /\ targetText[i + 1] = HALANT
              /\ isConsonant(targetText[i + 2])
              /\ startsUnit(targetText, i) )
            => LET M == matrasAt(targetText, i + 3) IN
               keystrokes = decomposeTargetText(before(targetText, i))
                            \o <<targetText[i + 2]>> \o M \o <<RA, HALANT>>
                            \o decomposeTargetText(from(targetText, i + 3 + Len(M)))

\* C19 witness: a reph cluster with two matras after a half-form + AA consonant
\* was decomposed, the consonant and the matras copied as they are
RephMovedToEndWitness ==
    /\ stage = "decomposed"
    /\ targetText = <<KA, RA, HALANT, SHA, CHOTI_I_MATRA, ANUSVARA, KA>>
    /\ keystrokes = <<KA, SHA, CHOTI_I_MATRA, ANUSVARA, RA, HALANT, KA>>

\* C20: direct-key conjuncts stay atomic -- wherever one of the five single-key
\* conjuncts occurs outside a reph cluster, its three codepoints are emitted
\* intact and contiguous, between the keystrokes of what precedes it and the
\* keystrokes of what follows it; none of its consonants is rewritten.
DirectConjunctAtomic ==
    stage = "decomposed" =>
        \A i \in 1..(Len(targetText) - 2) :
            ( /\ SubSeq(targetText, i, i + 2) \in singleKeyConjuncts
              /\ ~(At(targetText, i - 2) = RA /\ At(targetText, i - 1) = HALANT) )
            => keystrokes = decomposeTargetText(before(targetText, i))
                            \o SubSeq(targetText, i, i + 2)
                            \o decomposeTargetText(from(targetText, i + 3))

\* C20 witness: a conjunct whose first consonant is a half-form + AA consonant
\* was emitted intact after a half form and before a pre-base matra
DirectConjunctAtomicWitness ==
    /\ stage = "decomposed"
    /\ targetText = <<MA, HALANT, SHA, HALANT, RA, CHOTI_I_MATRA>>
    /\ keystrokes = <<MA, HALANT, SHA, HALANT, RA, CHOTI_I_MATRA>>

\* the consonants the layout types as half form + AA-matra
fusedConsonants == { BHA, DHA, GHA, THA, SHA, SSA, KHA, NNA }

\* position i of the text is inside one of the single-key conjuncts
inSingleKeyConjunct(text, i) ==
    \E j \in { i - 2, i } :
        j >= 1 /\ j + 2 <= Len(text) /\ SubSeq(text, j, j + 2) \in singleKeyConjuncts

\* C21: half-form + AA fusion -- every occurrence in the composed text of a
\* consonant of the fixed table that is not followed by halant and is not part
\* of a direct-key conjunct appears in the decomposed text as that consonant +
\* halant + AA-matra: when all the occurrences of such a consonant qualify,
\* the keystrokes hold it as often as the text, each time followed by halant
\* and AA-matra.
HalfPlusAaFused ==
    stage = "decomposed" =>
        \A c \in fusedConsonants :
            LET inText == { i \in 1..Len(targetText) : targetText[i] = c }
                inKeys == { k \in 1..Len(keystrokes) : keystrokes[k] = c }
            IN ( \A i \in inText : /\ At(targetText, i + 1) # HALANT
                                    /\ ~inSingleKeyConjunct(targetText, i) )
               => /\ Cardinality(inKeys) = Cardinality(inText)
                  /\ \A k \in inKeys : /\ At(keystrokes, k + 1) = HALANT
                                        /\ At(keystrokes, k + 2) = AA_MATRA

\* C22: compound matra decomposition -- every O-matra of the composed text is
\* rewritten as AA-matra + E-matra, whatever precedes it: the decomposed text
\* never contains the O-matra.
NoOMatraInKeystrokes ==
    stage = "decomposed" => \A k \in 1..Len(keystrokes) : keystrokes[k] # O_MATRA

\* C23: chandrabindu decomposition -- every chandrabindu of the composed text
\* is rewritten as candra-E + anusvara in every context, also after the
\* consonant of a reph cluster: the decomposed text never contains it.
NoChandrabinduInKeystrokes ==
    stage = "decomposed" => \A k \in 1..Len(keystrokes) : keystrokes[k] # CHANDRABINDU

\* the keystrokes of an independent vowel
vowelKeystrokes(v) ==
    CASE v = AA_VOWEL -> <<A_VOWEL, AA_MATRA>>
      [] v = II_VOWEL -> <<I_VOWEL, RA, HALANT>>
      [] v = UU_VOWEL -> <<A_VOWEL, UU_MATRA>>
      [] v = AI_VOWEL -> <<E_VOWEL, E_MATRA>>
      [] v = O_VOWEL  -> <<A_VOWEL, AA_MATRA, E_MATRA>>
      [] v = AU_VOWEL -> <<A_VOWEL, AA_MATRA, AI_MATRA>>
      [] OTHER -> <<v>>

RECURSIVE vowelsKeystrokes(_)
vowelsKeystrokes(text) ==
    IF text = <<>> THEN <<>>
    ELSE vowelKeystrokes(Head(text)) \o vowelsKeystrokes(Tail(text))

\* C24: independent vowels round-trip -- for every string of independent
\* vowels (U+0905 to U+0914) the six vowels without a direct key are decomposed
\* to their keystrokes, the others pass through unchanged, and
\* recompose(decompose(s)) = s.
VowelsRoundTrip ==
    /\ stage \in {"decomposed", "recomposed"} => keystrokes = vowelsKeystrokes(targetText)
    /\ stage = "recomposed" => displayText = targetText

\* C24 witness: a string of two decomposed vowels was decomposed and re-fused
VowelsRoundTripWitness ==
    /\ stage = "recomposed"
    /\ targetText = <<II_VOWEL, AU_VOWEL>>
    /\ keystrokes = <<I_VOWEL, RA, HALANT, A_VOWEL, AA_MATRA, AI_MATRA>>
    /\ displayText = <<II_VOWEL, AU_VOWEL>>

RECURSIVE concatenation(_)
concatenation(clusters) ==
    IF clusters = <<>> THEN <<>>
    ELSE Head(clusters) \o concatenation(Tail(clusters))

\* C25: composeHindiInput is consistent with recomposeDecomposedText --
\* folding composeHindiInput over the key clusters of a keystroke sequence,
\* from the empty text with no pending vowel, gives the display text that
\* recomposeDecomposedText gives for the concatenation of the clusters
\* (compared whenever no pre-base vowel is waiting outside the text).
IncrementalMatchesRecompose ==
    pendingPreBaseVowel = <<>>
        => composedText = recomposeDecomposedText(concatenation(typedClusters))

\* the cluster given to composeHindiInput by the step
typedCluster == typedClusters'[Len(typedClusters')]

RECURSIVE occurrences(_, _)
occurrences(char, text) ==
    IF text = <<>> THEN 0
    ELSE (IF Head(text) = char THEN 1 ELSE 0) + occurrences(char, Tail(text))

\* C26: the pre-base vowel is buffered until a consonant arrives -- a
\* CHOTI_I_MATRA keystroke leaves the text unchanged and becomes pending; a
\* pending vowel stays pending over every cluster that is not a consonant and
\* no CHOTI_I_MATRA that was typed is lost from text plus pending; a consonant
\* appends consonant + vowel to the text and clears the pending vowel.
PreBaseBuffered ==
    [][ typedClusters' # typedClusters =>
          /\ typedCluster = <<CHOTI_I_MATRA>>
                => composedText' = composedText /\ pendingPreBaseVowel' = typedCluster
          /\ pendingPreBaseVowel # <<>> /\ ~isConsonant(typedCluster[1])
                => pendingPreBaseVowel' # <<>>
          /\ occurrences(CHOTI_I_MATRA, composedText' \o pendingPreBaseVowel')
                = occurrences(CHOTI_I_MATRA, composedText \o pendingPreBaseVowel)
                  + occurrences(CHOTI_I_MATRA, typedCluster)
          /\ pendingPreBaseVowel # <<>> /\ isConsonant(typedCluster[1])
                => /\ composedText' = composedText \o typedCluster \o pendingPreBaseVowel
                   /\ pendingPreBaseVowel' = <<>> ]_vars

\* C27: with no pending vowel, a text that ends in an independent vowel V
\* and an incoming matra m with an entry (V, m) in the vowel+matra table give
\* the text with V replaced by the table's fused vowel, for every entry.
TableEntryFuses ==
    [][ typedClusters' # typedClusters =>
          LET V == At(composedText, Len(composedText))
          IN ( /\ pendingPreBaseVowel = <<>>
               /\ V \in DOMAIN VOWEL_MATRA_MAP
               /\ typedCluster \in DOMAIN VOWEL_MATRA_MAP[V] )
             => composedText' = SubSeq(composedText, 1, Len(composedText) - 1)
                                  \o <<VOWEL_MATRA_MAP[V][typedCluster]>> ]_vars

ShiftClass == { "ShiftLeft", "ShiftRight" }

AltGrClass == { "AltRight" }

\* the modifier state of a set of held keys, by class
stateOf(held) ==
    CASE held \cap ShiftClass # {} /\ held \cap AltGrClass # {} -> "altgr-shift"
      [] held \cap ShiftClass = {} /\ held \cap AltGrClass # {} -> "altgr"
      [] held \cap ShiftClass # {} /\ held \cap AltGrClass = {} -> "shift"
      [] OTHER -> "normal"

\* C28: getModifierState of the held keys is altgr-shift iff a shift-class
\* and an altgr-class key are both held, altgr iff only an altgr-class key,
\* shift iff only a shift-class key, normal otherwise; the left and the right
\* shift key give the same result and a held key of neither class has no
\* effect on it.
ModifierStateByClass ==
    /\ modifierState = stateOf(pressedKeys)
    /\ \A k \in pressedKeys \ (ShiftClass \cup AltGrClass) :
          getModifierState(pressedKeys \ {k}) = modifierState
    /\ \A k \in pressedKeys \cap ShiftClass :
          getModifierState((pressedKeys \ {k}) \cup (ShiftClass \ {k})) = modifierState

\* C28 witness: the right shift key, the altgr key and a letter key are held
ModifierStateByClassWitness ==
    /\ pressedKeys = { "ShiftRight", "AltRight", "KeyD" }
    /\ modifierState = "altgr-shift"

\* characters looked up in the layout: the codepoints of the passages, the
\* units of the next-key hint, and a Latin letter
LookupCharacters ==
    { <<c>> : c \in HintAlphabet } \cup { knownSequences[k] : k \in DOMAIN knownSequences }
        \cup { <<MA, HALANT>>, <<88>> }

\* no two keys of the layout share a key code; the key map has one entry per key
UniqueKeyCodes ==
    /\ \A i, j \in DOMAIN REMINGTON_GAIL_LAYOUT :
          REMINGTON_GAIL_LAYOUT[i].key = REMINGTON_GAIL_LAYOUT[j].key => i = j
    /\ Cardinality(DOMAIN KEY_MAP) = Len(REMINGTON_GAIL_LAYOUT)

\* the reverse lookup agrees with the forward lookup on the layout's slots
\* and on the characters looked up
ReverseAgreesWithForward ==
    /\ \A i \in DOMAIN REMINGTON_GAIL_LAYOUT : \A m \in ModifierStates :
          LET c == getCharacterForKey(REMINGTON_GAIL_LAYOUT[i].key, m)
          IN c # <<>> => <<REMINGTON_GAIL_LAYOUT[i].key, m>> \in findKeysForCharacter(c)
    /\ \A c \in LookupCharacters :
          /\ \A k \in findKeysForCharacter(c) : getCharacterForKey(k[1], k[2]) = c
          /\ (\A i \in DOMAIN REMINGTON_GAIL_LAYOUT : \A m \in ModifierStates :
                 outputOf(REMINGTON_GAIL_LAYOUT[i], m) # c)
               => findKeysForCharacter(c) = {}

errorPositions == { errors[i] : i \in DOMAIN errors }

ErrorsDistinct ==
    /\ \A i, j \in DOMAIN errors : errors[i] = errors[j] => i = j
    /\ Len(errors) <= currentIndex
    /\ Len(typedText) - Len(errors) >= 0

\* C31 witness: after a reset, two wrong keystrokes marked two different
\* positions and no typed codepoint counts as correct
ErrorsDistinctWitness ==
    /\ resets = 1
    /\ currentIndex = 2
    /\ errors = <<0, 1>>
    /\ Len(typedText) - Len(errors) = 0

\* C32: start() starts or resumes the timer after a reset -- the keystroke
\* that activates a session calls timer.start(), and after it the timer runs
\* (an interval is ticking), also when reset() was called while the timer
\* was running.
StartAfterResetRuns ==
    [][ (~isActive /\ isActive') => (timerRunning' /\ timerInterval') ]_vars

\* C33: with no duration limit, completion is signaled only for a session
\* that is terminal at that moment -- the finish callback scheduled by the
\* last keystroke never runs (and calls onComplete) after a reset has put the
\* cursor back to 0.
CompletionOnlyWhenTerminal ==
    [][ Len(pendingFinish') < Len(pendingFinish) => isCompleted ]_vars

\* a step in which the typing engine consumed a key event
keystrokeApplied ==
    /\ Len(pendingFinish') >= Len(pendingFinish)
    /\ \/ lastEvent' # lastEvent
       \/ typedText' # typedText
       \/ currentIndex' # currentIndex
       \/ needsDummyBackspace' # needsDummyBackspace

\* C34: key auto-repeat is suppressed -- a keystroke (or Backspace) is
\* applied to the typing engine only by the keydown that adds a non-modifier
\* key to the held keys: keydown events of a key that is already held, before
\* its keyup, deliver nothing, so one keystroke is applied per physical press.
AutoRepeatSuppressed ==
    [][ keystrokeApplied
          => \E code \in PhysicalKeys :
               /\ ~isModifierKey(code)
               /\ code \notin pressedKeys
               /\ pressedKeys' = pressedKeys \cup {code} ]_vars

\* C34 witness: KeyD is held and the one keystroke of its press is applied
AutoRepeatSuppressedWitness ==
    /\ pressedKeys = { "KeyD" }
    /\ lastEvent = Event("forward", "KeyD", "normal")
    /\ typedText = <<KA>>
    /\ currentIndex = 1

\* C35: every keystroke useKeyPress delivers to the typing engine is for a
\* non-modifier key that has just been pressed and carries the modifier state
\* resolved from the full set of keys held at that moment; after every
\* keydown and keyup the exposed modifierState is the state of the held keys.
DeliveredWithHeldModifiers ==
    [][ /\ modifierState' = stateOf(pressedKeys')
        /\ (keystrokeApplied /\ lastEvent'.kind \in {"forward", "emptyOutput"})
              => /\ lastEvent'.key \notin ShiftClass \cup AltGrClass \cup {"AltLeft"}
                 /\ lastEvent'.key \in pressedKeys' \ pressedKeys
                 /\ lastEvent'.modifiers = stateOf(pressedKeys') ]_vars

\* C35 witness: KeyE pressed while the right shift key is held was delivered
\* with the shift state
DeliveredWithHeldModifiersWitness ==
    /\ pressedKeys = { "ShiftRight", "KeyE" }
    /\ modifierState = "shift"
    /\ lastEvent = Event("forward", "KeyE", "shift")
    /\ typedText = <<MA, HALANT>>

\* T[0..k)
prefix(text, k) == SubSeq(text, 1, k)

\* C36: decomposeTargetText is length-monotone over prefixes -- for every
\* text T and every k < len(T), the keystroke plan of T[0..k) is no longer
\* than the keystroke plan of T[0..k+1).
DecomposeLengthMonotone ==
    stage = "decomposed"
        => \A k \in 0..(Len(targetText) - 1) :
             Len(decomposeTargetText(prefix(targetText, k)))
                <= Len(decomposeTargetText(prefix(targetText, k + 1)))

\* C37: elapsed counts only the time spent running -- across start and
\* pause calls and countdown expiry it never decreases, it does not advance
\* while the timer is paused, and only reset() or stop() brings it back to 0.
ElapsedCountsRunning ==
    [][ /\ elapsed' < elapsed => (lastEvent'.kind \in {"reset", "stop"} /\ elapsed' = 0)
        /\ (~timerRunning /\ ~timerRunning') => elapsed' <= elapsed ]_vars

\* C38: once an update has been reported (status available, downloading or
\* downloaded) the status never reverts to not-available; the 3-second
\* startup timeout cannot hide an update announced before it fired.
UpdateNeverReverts ==
    [][ (updateStatus \in { "available", "downloading", "downloaded" })
          => (updateStatus' # "not-available") ]_vars

====
